---- MODULE Spec2Model ----
(***************************************************************************)
(* Model of libre/apps/data_drivers/query.py: Query.execute and the        *)
(* helpers it calls (parse_parameters, get_filter_functions_map,           *)
(* get_data, process_groups, process_aggregates, process_field_filtering). *)
(*                                                                         *)
(* Python strings are sequences of one-character strings, so that split,   *)
(* strip, slicing, replace and startswith are computed, not assumed.       *)
(* Python values are tagged records: [t |-> "int", i |-> 5],               *)
(* [t |-> "str", s |-> <<..>>], [t |-> "map", m |-> f], [t |-> "geom",..]. *)
(***************************************************************************)
EXTENDS Integers, Sequences, FiniteSets, TLC

VARIABLES
    data,           \* self.data: the dataset, a sequence of record payloads
    limit,          \* self.limit
    klass,          \* self.klass: the slugs klass.objects.get_subclass resolves
    slug,           \* the slug of the dataset the caller queries
    parameters,     \* the parameter map, as the sequence parameters.items() yields
    pc,             \* position inside Query.execute
    parsed,         \* what parse_parameters returned
    fidx,           \* number of filters the loop of line 36 has completed
    query_results,  \* the set object query_results (a hash table)
    rows,           \* the row sequence: get_data's return value
    picked,         \* the positions of the records get_data picked, in order
    result,         \* the value the pipeline carries after get_data
    outcome         \* how execute ended: "none" while running

vars == <<data, limit, klass, slug, parameters, pc, parsed, fidx,
          query_results, rows, picked, result, outcome>>

----------------------------------------------------------------------------
(* Bounds of the model *)

MaxRecords == 3
MaxFilters == 2
MaxLimit == 3
MaxGroupRecords == 3
MaxPositions == 9
MaxMatches == 2

----------------------------------------------------------------------------
(* Python values *)

IntV(n) == [t |-> "int", i |-> n]
StrV(s) == [t |-> "str", s |-> s]
MapV(m) == [t |-> "map", m |-> m]
GeomV(kind, len, ar) == [t |-> "geom", geom_type |-> kind, length |-> len, area |-> ar]

----------------------------------------------------------------------------
(* Python string operations, on sequences of characters *)

StartsWith(s, p) == Len(s) >= Len(p) /\ SubSeq(s, 1, Len(p)) = p

RECURSIVE FindFrom(_, _, _)
FindFrom(s, d, i) ==
    IF i + Len(d) - 1 > Len(s) THEN 0
    ELSE IF SubSeq(s, i, i + Len(d) - 1) = d THEN i
    ELSE FindFrom(s, d, i + 1)

Contains(s, d) == FindFrom(s, d, 1) # 0

RECURSIVE Split(_, _)
Split(s, d) ==
    LET i == FindFrom(s, d, 1) IN
    IF i = 0 THEN <<s>>
    ELSE <<SubSeq(s, 1, i - 1)>> \o Split(SubSeq(s, i + Len(d), Len(s)), d)

RECURSIVE Replace(_, _, _)
Replace(s, old, new) ==
    LET i == FindFrom(s, old, 1) IN
    IF i = 0 THEN s
    ELSE SubSeq(s, 1, i - 1) \o new \o Replace(SubSeq(s, i + Len(old), Len(s)), old, new)

RECURSIVE LStrip(_)
LStrip(s) == IF s # <<>> /\ Head(s) = " " THEN LStrip(Tail(s)) ELSE s

RECURSIVE RStrip(_)
RStrip(s) == IF s # <<>> /\ s[Len(s)] = " " THEN RStrip(SubSeq(s, 1, Len(s) - 1)) ELSE s

Strip(s) == RStrip(LStrip(s))

\* s[1:-1]
Inner(s) == SubSeq(s, 2, Len(s) - 1)

UpperChar(c) ==
    CASE c = "a" -> "A" [] c = "d" -> "D" [] c = "n" -> "N"
      [] c = "o" -> "O" [] c = "r" -> "R" [] OTHER -> c

Upper(s) == [i \in 1..Len(s) |-> UpperChar(s[i])]

----------------------------------------------------------------------------
(* literals.py, filters.py, utils.py, aggregates.py, exceptions.py *)

LQL_DELIMITER == <<"_">>
DOUBLE_DELIMITER == <<"_", "_">>
JOIN_TYPE_AND == "AND"
JOIN_TYPE_OR == "OR"

S_equals == <<"e", "q", "u", "a", "l", "s">>
S_gt == <<"g", "t">>
S_lt == <<"l", "t">>
FILTER_NAMES == {S_equals, S_gt, S_lt}

Http400(msg, arg) == [kind |-> "Http400", msg |-> msg, arg |-> arg]

Digits == {"0", "1", "2", "3", "4", "5", "6", "7", "8", "9"}
DigitVal(c) ==
    CASE c = "0" -> 0 [] c = "1" -> 1 [] c = "2" -> 2 [] c = "3" -> 3 [] c = "4" -> 4
      [] c = "5" -> 5 [] c = "6" -> 6 [] c = "7" -> 7 [] c = "8" -> 8 [] c = "9" -> 9

RECURSIVE ToInt(_)
ToInt(s) == IF s = <<>> THEN 0 ELSE 10 * ToInt(SubSeq(s, 1, Len(s) - 1)) + DigitVal(s[Len(s)])

\* parse_value: the typed value of a raw string; an empty string has no
\* first character to look at (IndexError).
parse_value(s) ==
    IF s = <<>> THEN [t |-> "IndexError"]
    ELSE IF \A i \in 1..Len(s) : s[i] \in Digits THEN IntV(ToInt(s))
    ELSE StrV(s)

\* Filter.evaluate of the operator registered under filter_name
Evaluate(post_filter, value) ==
    CASE post_filter.filter_name = S_equals ->
            value.t = post_filter.value.t /\ value = post_filter.value
      [] post_filter.filter_name = S_gt ->
            value.t = "int" /\ post_filter.value.t = "int" /\ value.i > post_filter.value.i
      [] post_filter.filter_name = S_lt ->
            value.t = "int" /\ post_filter.value.t = "int" /\ value.i < post_filter.value.i

----------------------------------------------------------------------------
(* parse_parameters *)

S_join == <<"j", "o", "i", "n">>
S_fields == <<"f", "i", "e", "l", "d", "s">>
S_group_by == <<"g", "r", "o", "u", "p", "_", "b", "y">>
S_aggregate == <<"a", "g", "g", "r", "e", "g", "a", "t", "e">>
S_OR == <<"O", "R">>
S_Count == <<"C", "o", "u", "n", "t", "(">>
S_Sum == <<"S", "u", "m", "(">>

NoError == [kind |-> "none"]

\* lines 160-165
EmptyParse ==
    [filters |-> <<>>, field_query |-> <<>>, join_type |-> JOIN_TYPE_AND,
     aggregates |-> <<>>, groups |-> <<>>, error |-> NoError]

\* lines 202-218: the loop over the elements of an _aggregate value
RECURSIVE ParseAggregates(_, _, _)
ParseAggregates(acc, elements, k) ==
    IF k > Len(elements) THEN acc
    ELSE
      LET pair == Split(elements[k], <<":">>) IN
      IF Len(pair) # 2
      THEN [acc EXCEPT !.error = Http400("Specify an alias for the aggregate", <<>>)]
      ELSE
        LET name == pair[1]
            aggregate_string == pair[2]
        IN
        IF StartsWith(aggregate_string, S_Count)
        THEN ParseAggregates(
               [acc EXCEPT !.aggregates = Append(@,
                  [name |-> Inner(Strip(name)),
                   function |-> [cls |-> "Count",
                                 args |-> Split(Replace(Replace(aggregate_string, S_Count, <<>>),
                                                        <<")">>, <<>>), <<",">>)]])],
               elements, k + 1)
        ELSE IF StartsWith(aggregate_string, S_Sum)
        THEN ParseAggregates(
               [acc EXCEPT !.aggregates = Append(@,
                  [name |-> Inner(Strip(name)),
                   function |-> [cls |-> "Sum",
                                 args |-> Split(Replace(Replace(aggregate_string, S_Sum, <<>>),
                                                        <<")">>, <<>>), <<",">>)]])],
               elements, k + 1)
        ELSE ParseAggregates(acc, elements, k + 1)

\* lines 171-188: a plain filter parameter
ParseFilter(acc, parameter, raw) ==
    LET value == parse_value(raw) IN
    IF value.t = "IndexError"
    THEN [acc EXCEPT !.error = Http400("Malformed query", <<>>)]
    ELSE IF ~Contains(parameter, DOUBLE_DELIMITER)
    THEN [acc EXCEPT !.filters = Append(@,
            [field |-> parameter, filter_name |-> S_equals, value |-> value])]
    ELSE
      LET parts == Split(parameter, DOUBLE_DELIMITER) IN
      IF Len(parts) # 2
      THEN [acc EXCEPT !.error = Http400("Only one filter per field is supported", <<>>)]
      ELSE [acc EXCEPT !.filters = Append(@,
              [field |-> parts[1], filter_name |-> parts[2], value |-> value])]

\* lines 190-218: a directive parameter
ParseDirective(acc, parameter, value) ==
    IF parameter = LQL_DELIMITER \o S_join
    THEN IF Upper(value) = S_OR THEN [acc EXCEPT !.join_type = JOIN_TYPE_OR] ELSE acc
    ELSE IF parameter = LQL_DELIMITER \o S_fields
    THEN [acc EXCEPT !.field_query = Split(value, <<",">>)]
    ELSE IF parameter = LQL_DELIMITER \o S_group_by
    THEN [acc EXCEPT !.groups = Split(value, <<",">>)]
    ELSE IF parameter = LQL_DELIMITER \o S_aggregate
    THEN ParseAggregates(acc, Split(Inner(Strip(value)), <<",">>), 1)
    ELSE acc

\* lines 167-218: the loop over parameters.items(); the first error ends it
RECURSIVE ParseFrom(_, _, _)
ParseFrom(acc, items, k) ==
    IF k > Len(items) \/ acc.error.kind # "none" THEN acc
    ELSE
      LET parameter == items[k][1]
          value == items[k][2]
      IN
      ParseFrom(IF ~StartsWith(parameter, LQL_DELIMITER)
                THEN ParseFilter(acc, parameter, value)
                ELSE ParseDirective(acc, parameter, value),
                items, k + 1)

parse_parameters(items) == ParseFrom(EmptyParse, items, 1)

\* get_filter_functions_map: the first filter whose name the registry
\* lacks raises; 0 when every filter compiles
RECURSIVE FirstUnknownFilter(_, _)
FirstUnknownFilter(filters, k) ==
    IF k > Len(filters) THEN 0
    ELSE IF filters[k].filter_name \notin FILTER_NAMES THEN k
    ELSE FirstUnknownFilter(filters, k + 1)

get_filter_functions_map(p) ==
    LET k == FirstUnknownFilter(p.filters, 1) IN
    IF k = 0 THEN p
    ELSE [p EXCEPT !.error = Http400("Unknown filter: ", p.filters[k].filter_name)]

----------------------------------------------------------------------------
(* The set object behind query_results (Python 2 set of small non-negative *)
(* ints, hash(n) = n): an open-addressing table whose slots are walked in  *)
(* index order by iteration. A slot holds a key or Unused.                 *)

Unused == -1
PySet_MINSIZE == 8
PERTURB_SHIFT == 5

NewSet == [i \in 1..PySet_MINSIZE |-> Unused]

SetLen(so) == Cardinality({i \in 1..Len(so) : so[i] # Unused})
SetElems(so) == {so[i] : i \in 1..Len(so)} \ {Unused}

\* iteration order of the set: list(so)
SetIter(so) == SelectSeq(so, LAMBDA k : k # Unused)

\* the probe sequence of set_lookkey; i is kept modulo 2^16, a multiple of
\* every table size used here
RECURSIVE Probe(_, _, _, _)
Probe(so, key, i, perturb) ==
    LET j == (5 * i + perturb + 1) % (2 ^ 16)
        slot == j % Len(so)
    IN
    IF so[slot + 1] \in {Unused, key} THEN slot
    ELSE Probe(so, key, j, perturb \div (2 ^ PERTURB_SHIFT))

LookKey(so, key) ==
    LET slot == key % Len(so) IN
    IF so[slot + 1] \in {Unused, key} THEN slot ELSE Probe(so, key, slot, key)

SetInsertKey(so, key) == [so EXCEPT ![LookKey(so, key) + 1] = key]

RECURSIVE TableSize(_, _)
TableSize(newsize, minused) ==
    IF newsize <= minused THEN TableSize(2 * newsize, minused) ELSE newsize

RECURSIVE InsertAll(_, _, _)
InsertAll(so, keys, k) ==
    IF k > Len(keys) THEN so ELSE InsertAll(SetInsertKey(so, keys[k]), keys, k + 1)

\* set_table_resize: a fresh table, the old entries re-inserted in slot order
SetTableResize(so, minused) ==
    InsertAll([i \in 1..TableSize(PySet_MINSIZE, minused) |-> Unused], SetIter(so), 1)

\* set_add_key / set_add_entry
SetAddKey(so, key) ==
    LET grown == SetInsertKey(so, key) IN
    IF SetLen(grown) > SetLen(so) /\ SetLen(grown) * 3 >= Len(grown) * 2
    THEN SetTableResize(grown, SetLen(grown) * 4)
    ELSE grown

RECURSIVE AddAll(_, _, _)
AddAll(so, keys, k) ==
    IF k > Len(keys) THEN so ELSE AddAll(SetAddKey(so, keys[k]), keys, k + 1)

\* set(filter_results)
SetFromList(keys) == AddAll(NewSet, keys, 1)

\* so |= other  (set_merge)
SetMerge(so, other) ==
    IF SetLen(other) = 0 THEN so
    ELSE InsertAll(IF (SetLen(so) + SetLen(other)) * 3 >= Len(so) * 2
                   THEN SetTableResize(so, (SetLen(so) + SetLen(other)) * 2)
                   ELSE so,
                   SetIter(other), 1)

\* so &= other  (set_intersection into a new set, then swapped in): the
\* smaller operand is walked, the other one probed
SetIntersection(so, other) ==
    LET walked == IF SetLen(other) > SetLen(so) THEN so ELSE other
        probed == IF SetLen(other) > SetLen(so) THEN other ELSE so
    IN AddAll(NewSet, SelectSeq(SetIter(walked), LAMBDA k : k \in SetElems(probed)), 1)

----------------------------------------------------------------------------
(* Query.execute: the row evaluator and the result combiner *)

S_length == <<"_", "l", "e", "n", "g", "t", "h">>
S_area == <<"_", "a", "r", "e", "a">>
S_type == <<"_", "t", "y", "p", "e">>

\* the attributes Query.__init__ gives the instance
QueryAttributes == {"data", "limit", "klass"}

InvalidElement(post_filter) == Http400("Invalid element: ", post_filter.field)

\* lines 58-67: the KeyError handler. Reading self.slug raises AttributeError
\* when the instance has no such attribute; line 68 turns it into Http400.
\* The result is "continue" when the handler falls through to the next part.
KeyErrorHandler(post_filter, part, index) ==
    IF index = 0
    THEN IF "slug" \notin QueryAttributes THEN InvalidElement(post_filter)
         ELSE IF part # slug
         THEN IF part \notin klass THEN Http400("Unknown source: ", part)
              ELSE [kind |-> "redirect", source |-> part]
         ELSE [kind |-> "continue"]
    ELSE InvalidElement(post_filter)

\* lines 45-70: the walk of one record along the parts of the field path
RECURSIVE Resolve(_, _, _, _)
Resolve(value, post_filter, parts, index) ==
    IF index >= Len(parts) THEN [kind |-> "value", value |-> value]
    ELSE
      LET part == parts[index + 1] IN
      IF part \in {S_length, S_area, S_type}
      THEN IF value.t # "geom" THEN InvalidElement(post_filter)
           ELSE Resolve(CASE part = S_length -> IntV(value.length)
                          [] part = S_area -> IntV(value.area)
                          [] part = S_type -> StrV(value.geom_type),
                        post_filter, parts, index + 1)
      ELSE IF value.t = "map" /\ part \in DOMAIN value.m
      THEN Resolve(value.m[part], post_filter, parts, index + 1)
      ELSE IF value.t \in {"map", "geom"}
      THEN LET h == KeyErrorHandler(post_filter, part, index) IN
           IF h.kind = "continue" THEN Resolve(value, post_filter, parts, index + 1) ELSE h
      ELSE InvalidElement(post_filter)

\* lines 41-74: the scan of the dataset by one filter
RECURSIVE Scan(_, _, _, _)
Scan(queryset, post_filter, row_id, filter_results) ==
    IF row_id >= Len(queryset) THEN [kind |-> "ok", filter_results |-> filter_results]
    ELSE
      LET r == Resolve(queryset[row_id + 1], post_filter,
                       Split(post_filter.field, <<".">>), 0)
      IN
      IF r.kind # "value" THEN r
      ELSE Scan(queryset, post_filter, row_id + 1,
                IF Evaluate(post_filter, r.value)
                THEN Append(filter_results, row_id) ELSE filter_results)

\* the combiner with the join type ignored: every later match-set is intersected
CombineIgnoringJoin(so, join_type, filter_results) ==
    IF SetLen(so) # 0
    THEN SetIntersection(so, SetFromList(filter_results))
    ELSE SetFromList(filter_results)

\* lines 76-82
Combine(so, join_type, filter_results) ==
    IF SetLen(so) # 0
    THEN IF join_type = JOIN_TYPE_AND
         THEN SetIntersection(so, SetFromList(filter_results))
         ELSE SetMerge(so, SetFromList(filter_results))
    ELSE SetFromList(filter_results)

----------------------------------------------------------------------------
(* Query.get_data *)

\* seq[0:n] for n >= 0
Prefix(seq, n) == SubSeq(seq, 1, IF n < Len(seq) THEN n ELSE Len(seq))

\* the positions of the records get_data yields, in the order it yields them
get_data(queryset, filters, so, lim) ==
    IF filters # <<>>
    THEN IF SetLen(so) = 1 THEN SetIter(so)
         ELSE IF SetLen(so) = 0 THEN <<>>
         ELSE Prefix(SetIter(so), lim)
    ELSE Prefix([k \in 1..Len(queryset) |-> k - 1], lim)

RowsAt(queryset, positions) == [k \in 1..Len(positions) |-> queryset[positions[k] + 1]]

----------------------------------------------------------------------------
(* Query.process_groups, Query.process_aggregates,                         *)
(* Query.process_field_filtering                                           *)

\* order of two group keys under sorted(); the keys of the model are ints
KeyLess(a, b) == a.i < b.i

\* sorted() is stable: a row goes behind every row whose key is not greater
InsertSorted(acc, row, group) ==
    LET n == Cardinality({i \in 1..Len(acc) : ~KeyLess(row.m[group], acc[i].m[group])}) IN
    SubSeq(acc, 1, n) \o <<row>> \o SubSeq(acc, n + 1, Len(acc))

RECURSIVE SortFrom(_, _, _, _)
SortFrom(rs, group, k, acc) ==
    IF k > Len(rs) THEN acc ELSE SortFrom(rs, group, k + 1, InsertSorted(acc, rs[k], group))

\* the rows handed to groupby as they came, unsorted
Unsorted(rs, group) == rs

\* line 134: sorted(backup, key=itemgetter(group))
SortedBy(rs, group) == SortFrom(rs, group, 1, <<>>)

RECURSIVE RunEnd(_, _, _)
RunEnd(rs, group, k) ==
    IF k < Len(rs) /\ rs[k + 1].m[group] = rs[k].m[group] THEN RunEnd(rs, group, k + 1) ELSE k

\* lines 136-137: groupby yields the runs of adjacent rows with equal keys;
\* each run is stored under its key, a later run replacing an earlier one
RECURSIVE GroupRuns(_, _, _, _)
GroupRuns(rs, group, k, acc) ==
    IF k > Len(rs) THEN acc
    ELSE LET e == RunEnd(rs, group, k) IN
         GroupRuns(rs, group, e + 1, (rs[k].m[group] :> SubSeq(rs, k, e)) @@ acc)

SeqRange(seq) == {seq[k] : k \in 1..Len(seq)}

\* lines 127-141; itemgetter(group) raises KeyError on a row without the key
process_groups(d, groups) ==
    IF groups = <<>> THEN [kind |-> "ok", value |-> d]
    ELSE IF \E k \in 1..Len(groups), j \in 1..Len(d.rows) : groups[k] \notin DOMAIN d.rows[j].m
    THEN [kind |-> "KeyError"]
    ELSE [kind |-> "ok",
          value |-> [t |-> "groups",
                     g |-> [group \in SeqRange(groups) |->
                              GroupRuns(SortedBy(d.rows, group), group, 1, <<>>)]]]

RECURSIVE SumField(_, _, _)
SumField(rs, f, k) == IF k > Len(rs) THEN 0 ELSE rs[k].m[f].i + SumField(rs, f, k + 1)

\* aggregates.py: Count.execute and Sum.execute
AggregateExecute(function, rs) ==
    IF function.cls = "Count" THEN IntV(Len(rs)) ELSE IntV(SumField(rs, function.args[1], 1))

\* lines 109-112 and 119-121: one value per aggregate, stored under its name
RECURSIVE AggregateAll(_, _, _, _)
AggregateAll(aggregates, rs, k, acc) ==
    IF k > Len(aggregates) THEN acc
    ELSE AggregateAll(aggregates, rs, k + 1,
                      (aggregates[k].name :> AggregateExecute(aggregates[k].function, rs)) @@ acc)

\* lines 105-125
process_aggregates(d, groups, aggregates) ==
    IF aggregates = <<>> THEN d
    ELSE IF groups = <<>>
    THEN [t |-> "aggregates", a |-> AggregateAll(aggregates, d.rows, 1, <<>>)]
    ELSE [t |-> "group_aggregates",
          g |-> [group \in SeqRange(groups) |->
                   [group_result \in DOMAIN d.g[group] |->
                      AggregateAll(aggregates, d.g[group][group_result], 1, <<>>)]]]

\* lines 94-102; jsonq_ok: whether JSONq.query accepts field_query
process_field_filtering(d, field_query, jsonq_ok) ==
    IF field_query = <<>> THEN [kind |-> "ok", value |-> d]
    ELSE IF jsonq_ok
    THEN [kind |-> "ok", value |-> [t |-> "jsonq", query |-> field_query, of |-> d]]
    ELSE Http400("Filter query error; ", field_query)

----------------------------------------------------------------------------
(* Query.execute, step by step *)

NoResult == [t |-> "none"]

Finish(how, value) ==
    /\ pc' = "done"
    /\ outcome' = how
    /\ result' = value

\* lines 27-35
Parse ==
    /\ pc = "start"
    /\ LET p == parse_parameters(parameters)
           q == IF p.error.kind = "none" THEN get_filter_functions_map(p) ELSE p
       IN /\ parsed' = q
          /\ IF q.error.kind # "none"
             THEN Finish(q.error, NoResult)
             ELSE pc' = "filters" /\ UNCHANGED <<outcome, result>>
    /\ fidx' = 0
    /\ query_results' = NewSet
    /\ UNCHANGED <<data, limit, klass, slug, parameters, rows, picked>>

\* lines 36-82: one pass of the loop over the filters
ScanFilter ==
    /\ pc = "filters"
    /\ fidx < Len(parsed.filters)
    /\ LET r == Scan(data, parsed.filters[fidx + 1], 0, <<>>) IN
       IF r.kind = "ok"
       THEN /\ query_results' = Combine(query_results, parsed.join_type, r.filter_results)
            /\ fidx' = fidx + 1
            /\ UNCHANGED <<pc, outcome, result>>
       ELSE IF r.kind = "redirect"
       THEN /\ Finish(r, [t |-> "get_all", source |-> r.source, parameters |-> parameters])
            /\ UNCHANGED <<query_results, fidx>>
       ELSE /\ Finish(r, NoResult)
            /\ UNCHANGED <<query_results, fidx>>
    /\ UNCHANGED <<data, limit, klass, slug, parameters, parsed, rows, picked>>

\* line 84
GetData ==
    /\ pc = "filters"
    /\ fidx = Len(parsed.filters)
    /\ picked' = get_data(data, parsed.filters, query_results, limit)
    /\ rows' = RowsAt(data, picked')
    /\ result' = [t |-> "rows", rows |-> rows']
    /\ pc' = "groups"
    /\ UNCHANGED <<data, limit, klass, slug, parameters, parsed, fidx, query_results, outcome>>

\* line 86
ProcessGroups ==
    /\ pc = "groups"
    /\ LET r == process_groups(result, parsed.groups) IN
       IF r.kind = "ok"
       THEN pc' = "aggregates" /\ result' = r.value /\ UNCHANGED outcome
       ELSE Finish(r, NoResult)
    /\ UNCHANGED <<data, limit, klass, slug, parameters, parsed, fidx, query_results,
                   rows, picked>>

\* line 88
ProcessAggregates ==
    /\ pc = "aggregates"
    /\ result' = process_aggregates(result, parsed.groups, parsed.aggregates)
    /\ pc' = "fields"
    /\ UNCHANGED <<data, limit, klass, slug, parameters, parsed, fidx, query_results,
                   rows, picked, outcome>>

\* lines 90-92
ProcessFieldFiltering ==
    /\ pc = "fields"
    /\ \E jsonq_ok \in BOOLEAN :
         LET r == process_field_filtering(result, parsed.field_query, jsonq_ok) IN
         IF r.kind = "ok" THEN Finish([kind |-> "returned"], r.value)
         ELSE Finish(r, NoResult)
    /\ UNCHANGED <<data, limit, klass, slug, parameters, parsed, fidx, query_results,
                   rows, picked>>

Next ==
    \/ Parse
    \/ ScanFilter
    \/ GetData
    \/ ProcessGroups
    \/ ProcessAggregates
    \/ ProcessFieldFiltering

----------------------------------------------------------------------------
(* Inputs: parameter names and raw values, records, datasets *)

K_v == <<"v">>
K_g == <<"g">>
K_n == <<"n">>
K_s == <<"s">>
K_w == <<"w">>
K_y == <<"y">>
K_v_gt == K_v \o DOUBLE_DELIMITER \o S_gt
K_v_lt == K_v \o DOUBLE_DELIMITER \o S_lt
K_v_gt_lt == K_v \o DOUBLE_DELIMITER \o S_gt \o DOUBLE_DELIMITER \o S_lt
K_v_zz == K_v \o DOUBLE_DELIMITER \o <<"z", "z">>
K_v_y == K_v \o <<".">> \o K_y
K_n_y == K_n \o <<".">> \o K_y
K_s_area == K_s \o <<".">> \o S_area

R_5 == <<"5">>
R_7 == <<"7">>
R_none == <<>>
R_or == <<"o", "r">>
R_AND == <<"A", "N", "D">>
R_v_g == <<"v", ",", "g">>

\* (t:Count(*))
A_plain == <<"(", "t", ":">> \o S_Count \o <<"*", ")", ")">>
\* ("t":Count(*),"a":Avg(v),"s":Sum(v))
A_quoted ==
    <<"(", "\"", "t", "\"", ":">> \o S_Count \o <<"*", ")", ",">>
    \o <<"\"", "a", "\"", ":", "A", "v", "g", "(", "v", ")", ",">>
    \o <<"\"", "s", "\"", ":">> \o S_Sum \o <<"v", ")", ")">>
\* (Count(*))
A_noalias == <<"(">> \o S_Count \o <<"*", ")", ")">>

OwnSlug == <<"d">>

SeqsUpTo(S, n) == UNION {[1..k -> S] : k \in 0..n}

DistinctKeys(items) == \A i, j \in 1..Len(items) : i # j => items[i][1] # items[j][1]

Optional(item) == {<<>>, <<item>>}

Record_v(v) == MapV(K_v :> IntV(v))
Record_vg(v, g) == MapV(K_v :> IntV(v) @@ K_g :> IntV(g))
Record_nested == MapV(K_v :> IntV(7) @@ K_n :> MapV(K_y :> IntV(5))
                      @@ K_s :> GeomV(<<"P">>, 4, 5))

InitExecute ==
    /\ pc = "start"
    /\ parsed = EmptyParse
    /\ fidx = 0
    /\ query_results = NewSet
    /\ rows = <<>>
    /\ picked = <<>>
    /\ result = NoResult
    /\ outcome = NoError
    /\ slug = OwnSlug

\* Every kind of filter parameter, on small datasets
Init ==
    /\ InitExecute
    /\ data \in SeqsUpTo({Record_v(5), Record_nested}, MaxRecords)
    /\ limit \in 0..MaxLimit
    /\ klass \in {{}, {K_w}}
    /\ \E fs \in SeqsUpTo({K_v, K_v_gt, K_v_gt_lt, K_v_zz, K_w, K_v_y, K_n_y, K_s_area}
                          \X {R_5, R_none}, MaxFilters),
          fields \in Optional(<<LQL_DELIMITER \o S_fields, K_v>>) :
         /\ DistinctKeys(fs)
         /\ parameters = fs \o fields

Spec == Init /\ [][Next]_vars

\* Several well-formed filters on one field and a join type
InitJoin ==
    /\ InitExecute
    /\ data \in SeqsUpTo({Record_v(5), Record_v(7)}, MaxRecords)
    /\ limit \in 0..MaxLimit
    /\ klass = {}
    /\ \E fs \in SeqsUpTo({K_v, K_v_gt, K_v_lt} \X {R_5, R_7}, MaxFilters),
          join \in {<<>>, <<<<LQL_DELIMITER \o S_join, R_or>>>>,
                    <<<<LQL_DELIMITER \o S_join, R_AND>>>>} :
         /\ DistinctKeys(fs)
         /\ parameters = fs \o join

SpecJoin == InitJoin /\ [][Next]_vars

\* Grouping and aggregation
InitGroup ==
    /\ InitExecute
    /\ data \in SeqsUpTo({Record_vg(5, 1), Record_vg(7, 1), Record_vg(5, 2), Record_v(5)},
                         MaxGroupRecords)
    /\ limit \in 0..MaxLimit
    /\ klass = {}
    /\ \E fs \in Optional(<<K_v, R_5>>),
          group_by \in {<<>>} \cup {<<<<LQL_DELIMITER \o S_group_by, x>>>> : x \in {K_v, K_g, R_v_g}},
          aggregate \in {<<>>} \cup {<<<<LQL_DELIMITER \o S_aggregate, x>>>> :
                                        x \in {A_plain, A_quoted, A_noalias}} :
         parameters = fs \o group_by \o aggregate

SpecGroup == InitGroup /\ [][Next]_vars

\* One equals filter on datasets long enough for the set's table to wrap
InitOrder ==
    /\ InitExecute
    /\ \E n \in 0..MaxPositions, M \in SUBSET (0..(MaxPositions - 1)) :
         /\ Cardinality(M) <= MaxMatches
         /\ \A p \in M : p < n
         /\ data = [k \in 1..n |-> IF (k - 1) \in M THEN Record_v(5) ELSE Record_v(7)]
    /\ limit \in 0..MaxLimit
    /\ klass = {}
    /\ parameters = <<<<K_v, R_5>>>>

SpecOrder == InitOrder /\ [][Next]_vars

----------------------------------------------------------------------------
(* Properties *)

Positions == 0..(Len(data) - 1)

\* the match-set of one filter, computed on its own over the whole dataset
MatchSet(post_filter) ==
    {i \in Positions :
        LET r == Resolve(data[i + 1], post_filter, Split(post_filter.field, <<".">>), 0) IN
        r.kind = "value" /\ Evaluate(post_filter, r.value)}

\* the filter loop has ended and get_data has been given query_results
HandedToGetData == pc = "groups"

Ascending(seq) == \A a, b \in 1..Len(seq) : a < b => seq[a] < seq[b]

\* C1: with join type AND and at least one filter, the positions handed to
\* get_data are the intersection of the filters' match-sets.
C1_AndIsIntersection ==
    (HandedToGetData /\ parsed.join_type = JOIN_TYPE_AND /\ Len(parsed.filters) >= 1)
    => SetElems(query_results) =
         {i \in Positions : \A k \in 1..Len(parsed.filters) : i \in MatchSet(parsed.filters[k])}

\* C2: with join type OR and at least one filter, the positions handed to
\* get_data are the union of the filters' match-sets, whatever the order of
\* the filters and whichever of them match nothing.
C2_OrIsUnion ==
    (HandedToGetData /\ parsed.join_type = JOIN_TYPE_OR /\ Len(parsed.filters) >= 1)
    => SetElems(query_results) =
         UNION {MatchSet(parsed.filters[k]) : k \in 1..Len(parsed.filters)}

\* an OR query whose first filter matches nothing while its second matches
\* some but not all records has reached get_data with a non-empty set
C2_Witness ==
    /\ HandedToGetData
    /\ parsed.join_type = JOIN_TYPE_OR
    /\ Len(parsed.filters) >= 2
    /\ MatchSet(parsed.filters[1]) = {}
    /\ MatchSet(parsed.filters[2]) \notin {{}, Positions}
    /\ SetElems(query_results) # {}

\* the positions that survived the filters (every position without filters)
Survivors == IF parsed.filters # <<>> THEN SetElems(query_results) ELSE Positions

\* C3: get_data lists the payloads in ascending position order, and the
\* rows kept after truncation are those with the smallest surviving positions.
C3_AscendingOrder ==
    HandedToGetData
    => /\ rows = RowsAt(data, picked)
       /\ Ascending(picked)
       /\ \A q \in SeqRange(picked) : \A p \in Survivors : p < q => p \in SeqRange(picked)

\* C4: get_data produces at most limit rows; none when limit = 0.
C4_AtMostLimit == HandedToGetData => Len(rows) <= limit

IsPlainFilter(parameter) == ~StartsWith(parameter, LQL_DELIMITER)

\* the field a key of the form field or field__operator names
FieldOf(parameter) == Split(parameter, DOUBLE_DELIMITER)[1]

\* two well-formed plain-filter keys of the parameter map name the same field
SameFieldTwice ==
    /\ \E i, j \in 1..Len(parameters) :
         /\ i # j
         /\ IsPlainFilter(parameters[i][1]) /\ IsPlainFilter(parameters[j][1])
         /\ Len(Split(parameters[i][1], DOUBLE_DELIMITER)) <= 2
         /\ Len(Split(parameters[j][1], DOUBLE_DELIMITER)) <= 2
         /\ FieldOf(parameters[i][1]) = FieldOf(parameters[j][1])
    /\ \A i \in 1..Len(parameters) :
         /\ parameters[i][2] # <<>>
         /\ Len(Split(parameters[i][1], DOUBLE_DELIMITER)) <= 2

\* C5: a parameter map with two plain-filter keys naming the same field is
\* rejected with 'Only one filter per field is supported' and never yields
\* two filter specs for that field.
C5_OneOperatorPerField ==
    (pc # "start" /\ SameFieldTwice)
    => /\ outcome = Http400("Only one filter per field is supported", <<>>)
       /\ \A a, b \in 1..Len(parsed.filters) :
            a # b => parsed.filters[a].field # parsed.filters[b].field

\* the aliases, as written before the colon, of the recognised entries of
\* an _aggregate value
AliasesAsWritten(value) ==
    LET elements == Split(Inner(Strip(value)), <<",">>) IN
    {Split(elements[k], <<":">>)[1] :
        k \in {j \in 1..Len(elements) :
                 /\ Len(Split(elements[j], <<":">>)) = 2
                 /\ \/ StartsWith(Split(elements[j], <<":">>)[2], S_Count)
                    \/ StartsWith(Split(elements[j], <<":">>)[2], S_Sum)}}

\* C6: every recognised alias:Function(args) entry of _aggregate appears in
\* the result under the alias exactly as written: alias -> value without
\* grouping, group field -> key value -> alias -> value with _group_by.
C6_AliasIsKey ==
    \A k \in 1..Len(parameters) :
      (/\ pc = "done"
       /\ outcome.kind = "returned"
       /\ parameters[k][1] = LQL_DELIMITER \o S_aggregate)
      => \A alias \in AliasesAsWritten(parameters[k][2]) :
           IF parsed.groups = <<>>
           THEN result.t = "aggregates" /\ alias \in DOMAIN result.a
           ELSE /\ result.t = "group_aggregates"
                /\ \A group \in DOMAIN result.g : \A key \in DOMAIN result.g[group] :
                     alias \in DOMAIN result.g[group][key]

\* the first segment of the field path of the first filter
FirstSegment == Split(parsed.filters[1].field, <<".">>)[1]

\* the scan has begun: parsing and filter compilation raised nothing, there
\* is a filter and there is a record
ScanBegan ==
    /\ pc = "done"
    /\ parsed.error.kind = "none"
    /\ parsed.filters # <<>>
    /\ data # <<>>

\* C7: a filter whose first path segment is neither a key of the records
\* nor the slug of a registered sibling makes execute fail with
\* 'Unknown source: <segment>'.
C7_UnknownSource ==
    (/\ ScanBegan
     /\ \A i \in 1..Len(data) : FirstSegment \notin DOMAIN data[i].m
     /\ FirstSegment \notin klass)
    => outcome = Http400("Unknown source: ", FirstSegment)

\* C8: when the lookup of a first segment fails on a record, the segment is
\* not the dataset's own slug and a sibling is registered under it, execute
\* returns the sibling's result for the unmodified parameter map.
C8_Redirect ==
    (/\ ScanBegan
     /\ FirstSegment \notin DOMAIN data[1].m
     /\ FirstSegment # slug
     /\ FirstSegment \in klass)
    => /\ outcome.kind = "redirect"
       /\ result = [t |-> "get_all", source |-> FirstSegment, parameters |-> parameters]

\* process_groups has returned a grouping
Grouped == pc = "aggregates" /\ parsed.groups # <<>>

\* C9: under every requested group field g, process_groups returns a
\* partition of the rows: the keys are the values of g that occur, each
\* key holds exactly the rows with that value of g, in their input order,
\* so that no row is lost or duplicated.
C9_GroupsPartition ==
    Grouped
    => /\ result.t = "groups"
       /\ DOMAIN result.g = SeqRange(parsed.groups)
       /\ \A g \in SeqRange(parsed.groups) :
            /\ DOMAIN result.g[g] = {rows[k].m[g] : k \in 1..Len(rows)}
            /\ \A key \in DOMAIN result.g[g] :
                 result.g[g][key] = SelectSeq(rows, LAMBDA r : r.m[g] = key)

\* two group fields were requested and, under g, a key's rows are apart in
\* the input: the rows between them belong to another key
C9_Witness ==
    /\ Grouped
    /\ Len(parsed.groups) = 2
    /\ Len(rows) >= 3
    /\ rows[1].m[K_g] = rows[3].m[K_g]
    /\ rows[1].m[K_g] # rows[2].m[K_g]
    /\ rows[1] # rows[3]

\* C10: execute either returns a result (or a redirect result) or raises
\* Http400; no other error leaves it.
C10_OnlyBadRequest ==
    pc = "done" => outcome.kind \in {"returned", "redirect", "Http400"}

====
